---- MODULE Spec2Model ----
(***************************************************************************)
(* State-machine model of komp/razmetka.py: the ROIImageLabel widget and   *)
(* the ImageProcessor annotation session (selection, confirmation, moving  *)
(* to the next image, export of test.tsv).  Spec and LiveSpec are the      *)
(* session; MapperSpec, SanitizerSpec, LoaderSpec and WidgetSpec run the   *)
(* coordinate mapping, sanitize_name, load_images and the widget on their  *)
(* own, over bounded sets of inputs.                                       *)
(*                                                                         *)
(* Conventions.  An optional value is a tuple: << >> is Python's None (or  *)
(* an attribute not assigned yet), <<v>> or <<x, y>> a present value.      *)
(* current_roi is a string; NoneRoi stands for None and UnsetRoi for the   *)
(* attribute that __init__ never assigns.  The text of the entry field is  *)
(* a sequence of one-character strings, so that strip() is computed.       *)
(***************************************************************************)
EXTENDS Integers, Sequences, FiniteSets, TLC

VARIABLES
    images_list,        \* self.images_list: the loaded source items
    current_index,      \* self.current_index
    results,            \* self.results: rows "crop_fname<TAB>text"
    fragment_counter,   \* self.fragment_counter
    current_roi,        \* self.current_roi: the pending fragment
    orig_cv_img,        \* self.orig_cv_img: << >> or <<decoded image>>
    orig_size,          \* self.orig_size: << >> or <<w, h>>
    pixmap,             \* self.image_label.pixmap(): << >> or <<w, h>>
    info_label,         \* text of self.info_label
    entry_field,        \* text of self.entry_field
    add_button,         \* self.add_button.isEnabled()
    origin,             \* ROIImageLabel.origin: << >> or <<x, y>>
    rubberBand,         \* ROIImageLabel.rubberBand.isVisible()
    crop_dir,           \* files of crops2/: name -> [src: item the pixels are from]
    tsv,                \* test.tsv: << >> (not written) or the lines written
    phase,              \* "running", "complete" (quit after export), "aborted"
    roi_calls,          \* history: handle_roi calls since the last next_image
    roi_total,          \* history: handle_roi calls of the whole session
    confirmed,          \* history: the confirmed fragments, [roi, text]
    call,               \* unit specifications: the call made (<< >> in a session)
    ret                 \* unit specifications: what the call produced

vars == <<images_list, current_index, results, fragment_counter, current_roi,
          orig_cv_img, orig_size, pixmap, info_label, entry_field, add_button,
          origin, rubberBand, crop_dir, tsv, phase, roi_calls, roi_total,
          confirmed, call, ret>>

----------------------------------------------------------------------------
(* Bounds of the model *)

MaxImages == 2
MaxSelections == 3
MaxNameLen == 3
MaxPages == 2
MaxEvents == 3

----------------------------------------------------------------------------
(* Program constants and input sets *)

PreviewWidth == 500

NoneRoi == "<None>"
UnsetRoi == "<unset>"

Header == "filename\ttext\n"

Whitespace == {" ", "\t"}

\* what the user can have typed into the entry field
Texts == { << >>, <<" ">>, <<" ", "a", " ">> }

\* positions of a mouse press (inside the widget) and of a release (anywhere)
PressPoints == { <<0, 0>>, <<10, 10>> }
ReleasePoints == { <<10, 10>>, <<30, 30>>, <<-4, -4>> }
Buttons == { "left", "right" }

\* the source item at position i (1-based): a large and a small image alternate
SourceItem(i) ==
    [ label |-> "img" \o ToString(i) \o ".png",
      id    |-> i,
      w     |-> IF i % 2 = 1 THEN 1000 ELSE 250,
      h     |-> IF i % 2 = 1 THEN 800 ELSE 100 ]

SourceItems(n) == [ i \in 1..n |-> SourceItem(i) ]

----------------------------------------------------------------------------
(* Pure helpers *)

RECURSIVE Join(_)
Join(cs) == IF cs = << >> THEN "" ELSE Head(cs) \o Join(Tail(cs))

RECURSIVE lstrip(_)
lstrip(cs) ==
    IF cs # << >> /\ Head(cs) \in Whitespace THEN lstrip(Tail(cs)) ELSE cs

RECURSIVE rstrip(_)
rstrip(cs) ==
    IF cs # << >> /\ cs[Len(cs)] \in Whitespace
    THEN rstrip(SubSeq(cs, 1, Len(cs) - 1))
    ELSE cs

strip(cs) == rstrip(lstrip(cs))

\* format(n, "04d") for n >= 0
Format04d(n) ==
    LET s == ToString(n)
    IN  IF Len(s) >= 4 THEN s
        ELSE IF Len(s) = 3 THEN "0" \o s
        ELSE IF Len(s) = 2 THEN "00" \o s
        ELSE "000" \o s

\* crop_fname without the index of the image
crop_fname_noIndex(index, counter) ==
    "img_frag_" \o Format04d(counter) \o ".png"

crop_fname(index, counter) ==
    "img_" \o Format04d(index) \o "_frag_" \o Format04d(counter) \o ".png"

\* IEEE 754 double arithmetic on small operands.  A positive double is kept
\* as limbs <<top, l1, .., ln>> in base 2^13 (all but the top one below 2^13)
\* with r extra bits: its value is limbs / 2^(13 n + r).
Limb == 2 ^ 13

\* carries moved up, from the lowest limb to the top one
RECURSIVE Carry(_)
Carry(limbs) ==
    IF Len(limbs) = 1 THEN limbs
    ELSE LET k == Len(limbs)
             low == limbs[k]
             rest == [SubSeq(limbs, 1, k - 1) EXCEPT ![k - 1] = @ + low \div Limb]
         IN  Append(Carry(rest), low % Limb)

\* e with 2^e <= a / d < 2^(e + 1), for 0 < a, d < 2^12
FloorLog2(a, d) ==
    CHOOSE e \in -12..12 :
        IF e >= 0 THEN d * 2 ^ e <= a /\ a < d * 2 ^ (e + 1)
        ELSE d <= a * 2 ^ (-e) /\ a * 2 ^ (-e) < 2 * d

\* number of bits of v >= 0
BitLength(v) == CHOOSE k \in 0..30 : v < 2 ^ k /\ (k = 0 \/ 2 ^ (k - 1) <= v)

\* the next n quotient limbs of rem / d, and the remainder left after them
RECURSIVE QuotientLimbs(_, _, _)
QuotientLimbs(rem, d, n) ==
    IF n = 0 THEN << >>
    ELSE <<(rem * Limb) \div d>> \o QuotientLimbs((rem * Limb) % d, d, n - 1)

RECURSIVE QuotientRem(_, _, _)
QuotientRem(rem, d, n) ==
    IF n = 0 THEN rem ELSE QuotientRem((rem * Limb) % d, d, n - 1)

\* the double a / d: 53 significant bits, rounded to nearest, ties to even
FloatDiv(a, d) ==
    LET s == 52 - FloorLog2(a, d)
        n == s \div 13
        r == s % 13
        cur == a * 2 ^ r
        raw == <<cur \div d>> \o QuotientLimbs(cur % d, d, n)
        rem == QuotientRem(cur % d, d, n)
        up == 2 * rem > d \/ (2 * rem = d /\ raw[n + 1] % 2 = 1)
    IN  [ limbs |-> Carry([raw EXCEPT ![n + 1] = @ + (IF up THEN 1 ELSE 0)]),
          n |-> n, r |-> r ]

\* the double x * f for an integer 0 < x < 2^11: the exact product rounded
\* to 53 significant bits, to nearest, ties to even
FloatMul(x, f) ==
    LET P == Carry([ i \in 1..Len(f.limbs) |-> f.limbs[i] * x ])
        t == 13 * f.n + BitLength(P[1]) - 53
        k == Len(P)
        low == P[k] % 2 ^ t
        odd == (P[k] \div 2 ^ t) % 2 = 1
        up == 2 * low > 2 ^ t \/ (2 * low = 2 ^ t /\ odd)
    IN  [ f EXCEPT !.limbs =
            IF t <= 0 THEN P
            ELSE Carry([P EXCEPT ![k] = @ - low + (IF up THEN 2 ^ t ELSE 0)]) ]

\* int(f): the integer part
FloatToInt(f) == f.limbs[1] \div 2 ^ f.r

\* int(a * scale) for an integer a and a double scale: the product is
\* computed in doubles and truncated toward zero
Scale(a, scale) ==
    IF a = 0 THEN 0
    ELSE IF a > 0 THEN FloatToInt(FloatMul(a, scale))
    ELSE -FloatToInt(FloatMul(-a, scale))

\* Python's slice.indices for a[start:stop] (step 1) on an axis of length len
SliceIndex(i, len) ==
    IF i < 0 THEN (IF i + len < 0 THEN 0 ELSE i + len)
    ELSE (IF i > len THEN len ELSE i)

SliceLen(start, stop, len) ==
    LET a == SliceIndex(start, len)
        b == SliceIndex(stop, len)
    IN  IF b > a THEN b - a ELSE 0

\* QRect(origin, pos).normalized() as <<x, y, width, height>>
NormalizedRect(o, p) ==
    LET x1 == IF p[1] < o[1] - 1 THEN p[1] ELSE o[1]
        x2 == IF p[1] < o[1] - 1 THEN o[1] ELSE p[1]
        y1 == IF p[2] < o[2] - 1 THEN p[2] ELSE o[2]
        y2 == IF p[2] < o[2] - 1 THEN o[2] ELSE p[2]
    IN  <<x1, y1, x2 - x1 + 1, y2 - y1 + 1>>

\* truth value of a QPoint attribute: None and the null point (0,0) are falsy
Truthy(pt) == pt # << >> /\ pt # <<0, 0>>

\* QPixmap(path).scaledToWidth(500): size of the preview
ScaledToWidth(img) ==
    <<PreviewWidth, (img.h * PreviewWidth + img.w - 1) \div img.w>>

----------------------------------------------------------------------------
(* ImageProcessor *)

\* "Image i/n: label | Size: WxH"
ImageInfo(index, n, item) ==
    "Image " \o ToString(index + 1) \o "/" \o ToString(n) \o ": " \o item.label
        \o " | Size: " \o ToString(item.w) \o "x" \o ToString(item.h)

\* display_image() at index `index`; `decoded` is the outcome of load_image_cv
display_image(index, decoded) ==
    LET item == images_list[index + 1]
    IN  IF decoded
        THEN /\ orig_cv_img' = <<[src |-> item.id, w |-> item.w, h |-> item.h]>>
             /\ orig_size' = <<item.w, item.h>>
             /\ pixmap' = ScaledToWidth(item)
             /\ info_label' = ImageInfo(index, Len(images_list), item)
             /\ entry_field' = << >>
             /\ current_roi' = NoneRoi
        ELSE /\ info_label' = "Error loading " \o item.label
             /\ UNCHANGED <<orig_cv_img, orig_size, pixmap, entry_field, current_roi>>

\* __init__: the state after construction, for every size of the source
\* folder and both outcomes of the first display_image
SessionInit ==
    /\ images_list \in { SourceItems(n) : n \in 0..MaxImages }
    /\ current_index = 0
    /\ results = << >>
    /\ fragment_counter = 0
    /\ add_button = FALSE
    /\ origin = << >>
    /\ rubberBand = FALSE
    /\ crop_dir = << >>
    /\ tsv = << >>
    /\ phase = "running"
    /\ roi_calls = 0
    /\ roi_total = 0
    /\ confirmed = << >>
    /\ \E decoded \in BOOLEAN :
         IF images_list # << >> /\ decoded
         THEN LET item == images_list[1]
              IN  /\ orig_cv_img = <<[src |-> item.id, w |-> item.w, h |-> item.h]>>
                  /\ orig_size = <<item.w, item.h>>
                  /\ pixmap = ScaledToWidth(item)
                  /\ info_label = ImageInfo(0, Len(images_list), item)
                  /\ entry_field = << >>
                  /\ current_roi = NoneRoi
         ELSE /\ orig_cv_img = << >>
              /\ orig_size = << >>
              /\ pixmap = << >>
              /\ info_label = IF images_list # << >>
                              THEN "Error loading " \o images_list[1].label
                              ELSE ""
              /\ entry_field = << >>
              /\ current_roi = UnsetRoi

Init == SessionInit /\ call = << >> /\ ret = << >>

\* lines 158-167 of handle_roi: the rectangle <<x, y, w, h>> in the original
\* image for a rectangle of the preview
map_rect(rect, size, disp) ==
    LET scale_x == FloatDiv(size[1], disp[1])
        scale_y == FloatDiv(size[2], disp[2])
    IN  << Scale(rect[1], scale_x), Scale(rect[2], scale_y),
           Scale(rect[3], scale_x), Scale(rect[4], scale_y) >>

\* the rectangles a drag of the session can select, and the sizes of its images
SessionRects == { NormalizedRect(o, p) : o \in PressPoints, p \in ReleasePoints }
SessionSizes == { <<SourceItem(i).w, SourceItem(i).h>> : i \in 1..MaxImages }

\* map_rect on the session's rectangles and images, computed once
MappedRects ==
    [ r \in SessionRects, s \in SessionSizes |->
        map_rect(r, s, ScaledToWidth([w |-> s[1], h |-> s[2]])) ]

\* an exception leaves the handler: PyQt either aborts the process or prints
\* the traceback and returns to the event loop
Raise == \E abort \in BOOLEAN : phase' = IF abort THEN "aborted" ELSE phase

\* cv2.imwrite(path, crop): on success the file holds the crop, recorded by
\* the source item its pixels were cut from
imwrite(dir, fname, crop) == (fname :> [src |-> crop.src]) @@ dir

\* handle_roi(rect), rect = <<x, y, width, height>> in preview coordinates
handle_roi(rect) ==
    /\ roi_calls' = roi_calls + 1
    /\ roi_total' = roi_total + 1
    /\ IF pixmap = << >>
       THEN \* self.image_label.pixmap() is None
            /\ Raise
            /\ UNCHANGED <<current_roi, fragment_counter, add_button, info_label, crop_dir>>
       ELSE LET disp == ScaledToWidth([w |-> orig_size[1], h |-> orig_size[2]])
                mapped == IF <<rect, orig_size>> \in DOMAIN MappedRects /\ pixmap = disp
                          THEN MappedRects[rect, orig_size]
                          ELSE map_rect(rect, orig_size, pixmap)
                x == mapped[1]
                y == mapped[2]
                w == mapped[3]
                h == mapped[4]
                img == orig_cv_img[1]
                crop == [src |-> img.src,
                         w   |-> SliceLen(x, x + w, img.w),
                         h   |-> SliceLen(y, y + h, img.h)]
                fname == crop_fname(current_index, fragment_counter)
            IN  IF crop.w = 0 \/ crop.h = 0
                THEN \* cv2.imwrite raises on an empty image
                     /\ Raise
                     /\ UNCHANGED <<current_roi, fragment_counter, add_button,
                                    info_label, crop_dir>>
                ELSE /\ \E written \in BOOLEAN :
                          crop_dir' = IF written THEN imwrite(crop_dir, fname, crop)
                                      ELSE crop_dir
                     /\ current_roi' = fname
                     /\ fragment_counter' = fragment_counter + 1
                     /\ add_button' = TRUE
                     /\ info_label' = "Selected fragment: " \o fname
                                        \o ". Enter text and click 'Add Fragment'"
                     /\ UNCHANGED phase

\* confirm_fragment that records the text as typed, untrimmed
confirm_fragment_rawText ==
    /\ phase = "running"
    /\ UNCHANGED <<call, ret>>
    /\ add_button
    /\ LET text == Join(entry_field)
       IN  IF current_roi \in {NoneRoi, UnsetRoi} \/ strip(entry_field) = << >>
           THEN /\ info_label' = "Please select fragment and enter text."
                /\ UNCHANGED <<results, current_roi, entry_field, add_button, confirmed>>
           ELSE /\ results' = Append(results, current_roi \o "\t" \o text)
                /\ confirmed' = Append(confirmed, [roi |-> current_roi, text |-> text])
                /\ current_roi' = NoneRoi
                /\ entry_field' = << >>
                /\ add_button' = FALSE
                /\ info_label' = "Fragment saved successfully."
    /\ UNCHANGED <<images_list, current_index, fragment_counter, orig_cv_img,
                   orig_size, pixmap, origin, rubberBand, crop_dir, tsv, phase,
                   roi_calls, roi_total>>

\* confirm_fragment that does not look at the text
confirm_fragment_noTextCheck ==
    /\ phase = "running"
    /\ UNCHANGED <<call, ret>>
    /\ add_button
    /\ LET text == Join(strip(entry_field))
       IN  IF current_roi \in {NoneRoi, UnsetRoi}
           THEN /\ info_label' = "Please select fragment and enter text."
                /\ UNCHANGED <<results, current_roi, entry_field, add_button, confirmed>>
           ELSE /\ results' = Append(results, current_roi \o "\t" \o text)
                /\ confirmed' = Append(confirmed, [roi |-> current_roi, text |-> text])
                /\ current_roi' = NoneRoi
                /\ entry_field' = << >>
                /\ add_button' = FALSE
                /\ info_label' = "Fragment saved successfully."
    /\ UNCHANGED <<images_list, current_index, fragment_counter, orig_cv_img,
                   orig_size, pixmap, origin, rubberBand, crop_dir, tsv, phase,
                   roi_calls, roi_total>>

\* confirm_fragment that leaves the fragment pending and the button enabled
confirm_fragment_keepsPending ==
    /\ phase = "running"
    /\ UNCHANGED <<call, ret>>
    /\ add_button
    /\ Len(confirmed) <= MaxSelections
    /\ LET text == Join(strip(entry_field))
       IN  IF current_roi = UnsetRoi
           THEN /\ Raise
                /\ UNCHANGED <<results, entry_field, info_label, confirmed>>
           ELSE IF current_roi = NoneRoi \/ text = ""
           THEN /\ info_label' = "Please select fragment and enter text."
                /\ UNCHANGED <<results, entry_field, phase, confirmed>>
           ELSE /\ results' = Append(results, current_roi \o "\t" \o text)
                /\ confirmed' = Append(confirmed, [roi |-> current_roi, text |-> text])
                /\ entry_field' = << >>
                /\ info_label' = "Fragment saved successfully."
                /\ UNCHANGED phase
    /\ UNCHANGED <<images_list, current_index, fragment_counter, orig_cv_img,
                   orig_size, pixmap, origin, rubberBand, crop_dir, tsv,
                   roi_calls, roi_total, current_roi, add_button>>

\* a click on "Add Fragment" (the button emits clicked only while enabled)
confirm_fragment ==
    /\ phase = "running"
    /\ UNCHANGED <<call, ret>>
    /\ add_button
    /\ LET text == Join(strip(entry_field))
       IN  IF current_roi = UnsetRoi
           THEN \* self.current_roi was never assigned
                /\ Raise
                /\ UNCHANGED <<results, current_roi, entry_field, add_button,
                               info_label, confirmed>>
           ELSE IF current_roi = NoneRoi \/ text = ""
           THEN /\ info_label' = "Please select fragment and enter text."
                /\ UNCHANGED <<results, current_roi, entry_field, add_button,
                               phase, confirmed>>
           ELSE /\ results' = Append(results, current_roi \o "\t" \o text)
                /\ confirmed' = Append(confirmed, [roi |-> current_roi, text |-> text])
                /\ current_roi' = NoneRoi
                /\ entry_field' = << >>
                /\ add_button' = FALSE
                /\ info_label' = "Fragment saved successfully."
                /\ UNCHANGED phase
    /\ UNCHANGED <<images_list, current_index, fragment_counter, orig_cv_img,
                   orig_size, pixmap, origin, rubberBand, crop_dir, tsv,
                   roi_calls, roi_total>>

\* export that forgets the last row
export_dropsLastRow(rows) ==
    <<Header>> \o [ i \in 1..(Len(rows) - 1) |-> rows[i] \o "\n" ]

\* the lines written to test.tsv
export(rows) == <<Header>> \o [ i \in 1..Len(rows) |-> rows[i] \o "\n" ]

\* next_image that writes test.tsv on every advance
next_image_exportsEachAdvance ==
    /\ phase = "running"
    /\ UNCHANGED <<call, ret>>
    /\ current_index' = current_index + 1
    /\ fragment_counter' = 0
    /\ roi_calls' = 0
    /\ tsv' = export(results)
    /\ IF current_index' < Len(images_list)
       THEN /\ \E decoded \in BOOLEAN : display_image(current_index', decoded)
            /\ UNCHANGED phase
       ELSE /\ phase' = "complete"
            /\ UNCHANGED <<orig_cv_img, orig_size, pixmap, info_label,
                           entry_field, current_roi>>
    /\ UNCHANGED <<images_list, results, add_button, origin, rubberBand, crop_dir,
                   roi_total, confirmed>>

\* next_image that takes the last item for the end of the list
next_image_endsEarly ==
    /\ phase = "running"
    /\ UNCHANGED <<call, ret>>
    /\ current_index' = current_index + 1
    /\ fragment_counter' = 0
    /\ roi_calls' = 0
    /\ IF current_index' + 1 < Len(images_list)
       THEN /\ \E decoded \in BOOLEAN : display_image(current_index', decoded)
            /\ UNCHANGED <<tsv, phase>>
       ELSE /\ tsv' = export(results)
            /\ phase' = "complete"
            /\ UNCHANGED <<orig_cv_img, orig_size, pixmap, info_label,
                           entry_field, current_roi>>
    /\ UNCHANGED <<images_list, results, add_button, origin, rubberBand, crop_dir,
                   roi_total, confirmed>>

\* a click on "Next Image"
next_image ==
    /\ phase = "running"
    /\ UNCHANGED <<call, ret>>
    /\ current_index' = current_index + 1
    /\ fragment_counter' = 0
    /\ roi_calls' = 0
    /\ IF current_index' < Len(images_list)
       THEN /\ \E decoded \in BOOLEAN : display_image(current_index', decoded)
            /\ UNCHANGED <<tsv, phase>>
       ELSE /\ tsv' = export(results)
            /\ phase' = "complete"
            /\ UNCHANGED <<orig_cv_img, orig_size, pixmap, info_label,
                           entry_field, current_roi>>
    /\ UNCHANGED <<images_list, results, add_button, origin, rubberBand, crop_dir,
                   roi_total, confirmed>>

\* the user edits the entry field
EditText ==
    /\ phase = "running"
    /\ UNCHANGED <<call, ret>>
    /\ \E t \in Texts : t # entry_field /\ entry_field' = t
    /\ UNCHANGED <<images_list, current_index, results, fragment_counter,
                   current_roi, orig_cv_img, orig_size, pixmap, info_label,
                   add_button, origin, rubberBand, crop_dir, tsv, phase, roi_calls,
                   roi_total, confirmed>>

----------------------------------------------------------------------------
(* ROIImageLabel *)

\* the body of mousePressEvent(event)
press(pos, button) ==
    IF button = "left"
    THEN origin' = pos /\ rubberBand' = TRUE
    ELSE UNCHANGED <<origin, rubberBand>>

\* the rectangle of a release at pos: QRect(self.origin, event.pos()).normalized()
selection(pos) == NormalizedRect(origin, pos)

\* the body of mouseReleaseEvent(event); callback is the call
\* self.selection_callback(rect), not_called what holds of the callback's
\* state when it is not called
release(button, callback, not_called) ==
    IF button = "left" /\ Truthy(origin)
    THEN /\ rubberBand' = FALSE
         /\ origin' = << >>
         /\ callback
    ELSE /\ UNCHANGED <<origin, rubberBand>>
         /\ not_called

mousePressEvent ==
    /\ phase = "running"
    /\ UNCHANGED <<call, ret>>
    /\ \E pos \in PressPoints, button \in Buttons : press(pos, button)
    /\ UNCHANGED <<images_list, current_index, results, fragment_counter,
                   current_roi, orig_cv_img, orig_size, pixmap, info_label,
                   entry_field, add_button, crop_dir, tsv, phase, roi_calls,
                   roi_total, confirmed>>

mouseReleaseEvent ==
    /\ phase = "running"
    /\ UNCHANGED <<call, ret>>
    /\ roi_total < MaxSelections
    /\ \E pos \in ReleasePoints, button \in Buttons :
         release(button, handle_roi(selection(pos)),
                 UNCHANGED <<current_roi, fragment_counter, add_button,
                             info_label, crop_dir, phase, roi_calls, roi_total>>)
    /\ UNCHANGED <<images_list, current_index, results, orig_cv_img, orig_size,
                   pixmap, entry_field, tsv, confirmed>>

----------------------------------------------------------------------------

Next ==
    \/ mousePressEvent
    \/ mouseReleaseEvent
    \/ EditText
    \/ confirm_fragment
    \/ next_image

Spec == Init /\ [][Next]_vars

\* the user keeps clicking "Next Image" while the window is there
LiveSpec == Spec /\ WF_vars(next_image)

----------------------------------------------------------------------------
(* sanitize_name.  A string is a sequence of Unicode code points; the      *)
(* operators below cover Basic Latin, Latin-1 and Cyrillic U+0400..U+045F. *)

\* ASCII characters U+0020..U+005F in order, and the lowercase letters
\* U+0061..U+007A
AsciiUpper ==
    << " ", "!", "\"", "#", "$", "%", "&", "'", "(", ")", "*", "+", ",", "-", ".", "/",
       "0", "1", "2", "3", "4", "5", "6", "7", "8", "9", ":", ";", "<", "=", ">", "?",
       "@", "A", "B", "C", "D", "E", "F", "G", "H", "I", "J", "K", "L", "M", "N", "O",
       "P", "Q", "R", "S", "T", "U", "V", "W", "X", "Y", "Z", "[", "\\", "]", "^", "_" >>

AsciiLower ==
    << "a", "b", "c", "d", "e", "f", "g", "h", "i", "j", "k", "l", "m",
       "n", "o", "p", "q", "r", "s", "t", "u", "v", "w", "x", "y", "z" >>

\* ord(c) of one of these characters, and the string of such characters
Ord(c) ==
    IF \E i \in 1..Len(AsciiLower) : AsciiLower[i] = c
    THEN 96 + (CHOOSE i \in 1..Len(AsciiLower) : AsciiLower[i] = c)
    ELSE 31 + (CHOOSE i \in 1..Len(AsciiUpper) : AsciiUpper[i] = c)

Str(cs) == [ i \in 1..Len(cs) |-> Ord(cs[i]) ]

\* the transliteration table: U+0430..U+044F in alphabet order, and U+0451
TRANSLIT_DICT ==
    LET row == << <<"a">>, <<"b">>, <<"v">>, <<"g">>, <<"d">>, <<"e">>,
                  <<"z", "h">>, <<"z">>, <<"i">>, <<"y">>, <<"k">>, <<"l">>,
                  <<"m">>, <<"n">>, <<"o">>, <<"p">>, <<"r">>, <<"s">>, <<"t">>,
                  <<"u">>, <<"f">>, <<"h">>, <<"t", "s">>, <<"c", "h">>,
                  <<"s", "h">>, <<"s", "c", "h">>, << >>, <<"y">>, << >>,
                  <<"e">>, <<"y", "u">>, <<"y", "a">> >>
    IN  [ cp \in (1072..1103) \cup {1105} |->
            IF cp = 1105 THEN Str(<<"e">>) ELSE Str(row[cp - 1071]) ]

\* str.lower() of one character
lower(cp) ==
    IF (65 <= cp /\ cp <= 90) \/ (192 <= cp /\ cp <= 222 /\ cp # 215)
         \/ (1040 <= cp /\ cp <= 1071)
    THEN cp + 32
    ELSE IF 1024 <= cp /\ cp <= 1039 THEN cp + 80
    ELSE cp

\* str.isalnum() of one character: letters and digits of any script
isalnum(cp) ==
    \/ 48 <= cp /\ cp <= 57
    \/ 65 <= cp /\ cp <= 90
    \/ 97 <= cp /\ cp <= 122
    \/ cp \in {170, 178, 179, 181, 185, 186, 188, 189, 190}
    \/ 192 <= cp /\ cp <= 255 /\ cp \notin {215, 247}
    \/ 1024 <= cp /\ cp <= 1119

\* the [:50] of the return statement
NameLimit == 50

\* ''.join(translit) for the characters of name.lower(), from position i on
RECURSIVE translit(_, _)
translit(name, i) ==
    IF i > Len(name) THEN << >>
    ELSE LET char == lower(name[i])
         IN  (IF char \in DOMAIN TRANSLIT_DICT THEN TRANSLIT_DICT[char]
              ELSE IF isalnum(char) THEN <<char>>
              ELSE << >>) \o translit(name, i + 1)

sanitize_name(name) ==
    LET joined == translit(name, 1)
    IN  SubSeq(joined, 1, IF Len(joined) < NameLimit THEN Len(joined) ELSE NameLimit)

----------------------------------------------------------------------------
(* load_images.  A file of the source folder is [name, kind, pages]: kind  *)
(* is what the file holds ("raster", "pdf", "other") and pages the number  *)
(* of pages of a PDF (0 otherwise); the loader looks at the name only.     *)

\* the order of str, by code point; sorted() orders the paths of one
\* directory by their names
RECURSIVE StrLess(_, _)
StrLess(a, b) ==
    IF b = << >> THEN FALSE
    ELSE IF a = << >> THEN TRUE
    ELSE IF a[1] # b[1] THEN a[1] < b[1]
    ELSE StrLess(Tail(a), Tail(b))

RECURSIVE sorted(_)
sorted(files) ==
    IF files = {} THEN << >>
    ELSE LET first == CHOOSE f \in files :
                        \A g \in files \ {f} : StrLess(f.name, g.name)
         IN  <<first>> \o sorted(files \ {first})

\* Path.suffix: from the last dot on, unless that dot is the first or the
\* last character of the name
suffix(name) ==
    LET dots == { i \in 1..Len(name) : name[i] = Ord(".") }
        i == CHOOSE d \in dots : \A e \in dots : e <= d
    IN  IF dots # {} /\ 1 < i /\ i < Len(name)
        THEN SubSeq(name, i, Len(name))
        ELSE << >>

\* f.suffix.lower() without the lower()
suffix_asIs(name) == suffix(name)

\* f.suffix.lower()
suffix_lower(name) == [ i \in 1..Len(suffix(name)) |-> lower(suffix(name)[i]) ]

RasterSuffixes == { Str(<<".", "p", "n", "g">>),
                    Str(<<".", "j", "p", "g">>),
                    Str(<<".", "j", "p", "e", "g">>) }
PdfSuffix == Str(<<".", "p", "d", "f">>)
PngSuffix == Str(<<".", "p", "n", "g">>)

\* str(n) for n >= 0
RECURSIVE Decimal(_)
Decimal(n) ==
    IF n < 10 THEN <<48 + n>> ELSE Decimal(n \div 10) \o <<48 + (n % 10)>>

\* the entries one file appends: [tmp: name of the file written to temp_dir,
\* label: display name, src: <<file name, page>>, the image saved (page 0
\* for a raster file)]
entries(f) ==
    IF suffix_lower(f.name) \in RasterSuffixes
    THEN << [ tmp   |-> sanitize_name(f.name) \o PngSuffix,
              label |-> f.name,
              src   |-> <<f.name, 0>> ] >>
    ELSE IF suffix_lower(f.name) = PdfSuffix
    THEN LET base_name == sanitize_name(f.name)
         IN  [ i \in 1..f.pages |->
                 [ tmp   |-> base_name \o Str(<<"_">>) \o Decimal(i) \o PngSuffix,
                   label |-> base_name \o Str(<<"_">>) \o Decimal(i) \o PngSuffix,
                   src   |-> <<f.name, i>> ] ]
    ELSE << >>

RECURSIVE Concat(_)
Concat(seqs) == IF seqs = << >> THEN << >> ELSE Head(seqs) \o Concat(Tail(seqs))

\* the list load_images returns
load_images(dir) ==
    LET files == sorted(dir)
    IN  Concat([ i \in 1..Len(files) |-> entries(files[i]) ])

\* temp_dir after load_images: each file holds what was saved to it last
temp_dir(images) ==
    [ t \in { images[i].tmp : i \in 1..Len(images) } |->
        LET last == CHOOSE i \in 1..Len(images) :
                      /\ images[i].tmp = t
                      /\ \A j \in 1..Len(images) : images[j].tmp = t => j <= i
        IN  images[last].src ]

----------------------------------------------------------------------------
(* Units on their own.  `call` holds the arguments of one call and `ret`   *)
(* (<< >> until the call has returned) what it produced; the session       *)
(* variables rest in the state __init__ gives for an empty folder.         *)

NoSession == SessionInit /\ images_list = << >>

UNCHANGED_processor ==
    UNCHANGED <<images_list, current_index, results, fragment_counter,
                current_roi, orig_cv_img, orig_size, pixmap, info_label,
                entry_field, add_button, crop_dir, tsv, phase, roi_calls,
                roi_total, confirmed>>

UNCHANGED_session == UNCHANGED <<origin, rubberBand>> /\ UNCHANGED_processor

(* Coordinate mapping: a drag on the preview of an image, mapped by handle_roi *)

\* sizes of original images; all are displayed 500 wide
MapperImages ==
    { [w |-> 1000, h |-> 800], [w |-> 250, h |-> 100], [w |-> 36, h |-> 36] }

\* coordinates of pointer positions: inside, left of and right of the preview
MapperCoords == { -4, 0, 10, 29, 375, 520 }

\* a press lands inside the preview, a release anywhere
MapperCalls ==
    { [image |-> img, origin |-> o, pos |-> p] :
        img \in MapperImages,
        o \in (MapperCoords \X MapperCoords),
        p \in (MapperCoords \X MapperCoords) }

InsidePreview(pt, img) ==
    /\ 0 <= pt[1] /\ pt[1] < ScaledToWidth(img)[1]
    /\ 0 <= pt[2] /\ pt[2] < ScaledToWidth(img)[2]

MapperInit ==
    /\ NoSession
    /\ call \in { c \in MapperCalls : InsidePreview(c.origin, c.image) }
    /\ ret = << >>

\* mouseReleaseEvent with the left button, followed by the mapping of
\* handle_roi: ret is <<preview rectangle, mapped rectangle>>
MapRelease ==
    /\ ret = << >>
    /\ Truthy(call.origin)
    /\ LET rect == NormalizedRect(call.origin, call.pos)
       IN  ret' = << rect,
                     map_rect(rect, <<call.image.w, call.image.h>>,
                              ScaledToWidth(call.image)) >>
    /\ UNCHANGED call
    /\ UNCHANGED_session

MapperSpec == MapperInit /\ [][MapRelease]_vars

(* sanitize_name on its own *)

\* characters of the names: a B 7 - . e-acute, and Cyrillic shcha (small and
\* capital) and hard sign
NameChars == { 97, 66, 55, 45, 46, 233, 1097, 1065, 1098 }

SeqsUpTo(S, n) == UNION { [1..k -> S] : k \in 0..n }

Repeat(c, n) == [ i \in 1..n |-> c ]

\* every short name, and names whose transliteration is around the limit
SanitizerNames ==
    SeqsUpTo(NameChars, MaxNameLen)
        \cup { Repeat(c, n) : c \in {97, 1097}, n \in {17, 50, 51} }

SanitizerInit ==
    /\ NoSession
    /\ call \in { [name |-> n] : n \in SanitizerNames }
    /\ ret = << >>

\* one call of sanitize_name
Sanitize ==
    /\ ret = << >>
    /\ ret' = <<sanitize_name(call.name)>>
    /\ UNCHANGED call
    /\ UNCHANGED_session

SanitizerSpec == SanitizerInit /\ [][Sanitize]_vars

(* load_images on its own *)

File(name, kind, pages) == [ name |-> name, kind |-> kind, pages |-> pages ]

\* files that are not PDFs: any of them may be in the folder
PlainFiles ==
    { File(Str(<<"a", "b", ".", "p", "n", "g">>), "raster", 0),
      File(Str(<<"a", "-", "b", ".", "p", "n", "g">>), "raster", 0),
      File(Str(<<"B", ".", "J", "P", "G">>), "raster", 0),
      File(Str(<<"d", ".", "t", "a", "r", ".", "j", "p", "e", "g">>), "raster", 0),
      File(Str(<<"n", "o", "t", "e", "s", ".", "t", "x", "t">>), "other", 0),
      File(Str(<<"R", "E", "A", "D", "M", "E">>), "other", 0) }

\* the PDFs, each absent (0) or with 1..MaxPages pages
PdfNames == { Str(<<"c", ".", "p", "d", "f">>), Str(<<"E", ".", "P", "D", "F">>) }

Folders ==
    { plain \cup { File(n, "pdf", pages[n]) : n \in { m \in PdfNames : pages[m] > 0 } } :
        plain \in SUBSET PlainFiles, pages \in [PdfNames -> 0..MaxPages] }

LoaderInit ==
    /\ NoSession
    /\ call \in { [dir |-> d] : d \in Folders }
    /\ ret = << >>

\* one call of load_images: ret holds the list returned and temp_dir
Load ==
    /\ ret = << >>
    /\ LET images == load_images(call.dir)
       IN  ret' = << [images |-> images, temp_dir |-> temp_dir(images)] >>
    /\ UNCHANGED call
    /\ UNCHANGED_session

LoaderSpec == LoaderInit /\ [][Load]_vars

(* ROIImageLabel on its own: `call` is the sequence of mouse events        *)
(* delivered so far, `ret` the rectangles passed to selection_callback     *)

MouseEvent(kind, button, pos) == [ kind |-> kind, button |-> button, pos |-> pos ]

WidgetInit ==
    /\ NoSession
    /\ call = << >>
    /\ ret = << >>

WidgetPress ==
    /\ Len(call) < MaxEvents
    /\ \E pos \in PressPoints, button \in Buttons :
         /\ press(pos, button)
         /\ call' = Append(call, MouseEvent("press", button, pos))
    /\ UNCHANGED ret
    /\ UNCHANGED_processor

\* mouseMoveEvent: only the geometry of the rubber band changes
WidgetMove ==
    /\ Len(call) < MaxEvents
    /\ \E pos \in ReleasePoints :
         call' = Append(call, MouseEvent("move", "none", pos))
    /\ UNCHANGED <<origin, rubberBand, ret>>
    /\ UNCHANGED_processor

\* the callback of the widget on its own: the rectangle is recorded
forward(rect) == ret' = Append(ret, rect)

WidgetRelease ==
    /\ Len(call) < MaxEvents
    /\ \E pos \in ReleasePoints, button \in Buttons :
         /\ release(button, forward(selection(pos)), UNCHANGED ret)
         /\ call' = Append(call, MouseEvent("release", button, pos))
    /\ UNCHANGED_processor

WidgetNext ==
    \/ WidgetPress
    \/ WidgetMove
    \/ WidgetRelease

WidgetSpec == WidgetInit /\ [][WidgetNext]_vars

----------------------------------------------------------------------------
(* Properties *)

\* a fragment is pending: current_roi names a crop
Pending == current_roi \notin {NoneRoi, UnsetRoi}

\* a step that is a call of handle_roi
RoiStep == roi_total' = roi_total + 1

\* C1: when the session is complete, test.tsv is the header line followed by
\* exactly one line crop_filename<TAB>label per confirmation, in the order of
\* the confirmations; n confirmations give n + 1 lines.
C1_ExportMatchesConfirmations ==
    phase = "complete" =>
        /\ Len(tsv) = Len(confirmed) + 1
        /\ tsv[1] = "filename\ttext\n"
        /\ \A i \in 1..Len(confirmed) :
             tsv[i + 1] = confirmed[i].roi \o "\t" \o confirmed[i].text \o "\n"

\* three confirmations across two images, exported as four lines
C1_Witness ==
    /\ phase = "complete"
    /\ Len(images_list) = 2
    /\ Len(tsv) = 4
    /\ tsv[2] = "img_0000_frag_0000.png\ta\n"
    /\ tsv[3] = "img_0000_frag_0001.png\ta\n"
    /\ tsv[4] = "img_0001_frag_0000.png\ta\n"

\* C2: every confirmed record names a crop file that was written to the crop
\* folder (no file is ever removed, so the file must be there in every state
\* from the append on).
C2_RecordsNameWrittenCrops ==
    \A i \in 1..Len(confirmed) : confirmed[i].roi \in DOMAIN crop_dir

\* C3: a confirm with no pending fragment, or with a text that is empty after
\* trimming, changes nothing but the inline message.
C3_RejectedConfirmChangesNothing ==
    [][ (confirm_fragment /\ (~Pending \/ strip(entry_field) = << >>))
          => UNCHANGED <<images_list, current_index, results, fragment_counter,
                         current_roi, orig_cv_img, orig_size, pixmap, entry_field,
                         add_button, origin, rubberBand, crop_dir, tsv, phase,
                         confirmed>> ]_vars

\* a confirm was rejected for want of a pending fragment, the text being there
C3_Witness ==
    /\ info_label = "Please select fragment and enter text."
    /\ current_roi = NoneRoi
    /\ strip(entry_field) # << >>
    /\ confirmed = << >>
    /\ crop_dir # << >>

\* C4: after any next_image that lands on a further source item, whatever the
\* outcome of loading it, no fragment is pending.
C4_AdvanceClearsPending ==
    [][ (next_image /\ current_index' < Len(images_list)) => ~Pending' ]_vars

\* C5: current_index starts at 0, only next_image changes it, by exactly 1,
\* and it stays between 0 and the number of source items, the empty list
\* included.
C5_IndexWithinList ==
    /\ current_index = 0
    /\ [][ current_index' # current_index
             => (next_image /\ current_index' = current_index + 1) ]_vars
    /\ [](0 <= current_index /\ current_index <= Len(images_list))

\* C6: with an empty source list the session is complete from the start, with
\* a test.tsv that holds the header line only.
C6_EmptyFolderCompleteAtStartup ==
    images_list = << >> =>
        (phase = "complete" /\ tsv = <<"filename\ttext\n">>)

\* C7: every handle_roi call made at index i writes the crop named
\* img_{i:04d}_frag_{k:04d}.png, k the number of handle_roi calls already made
\* since the last next_image, increments the counter and leaves the name
\* pending.
C7_SelectionNaming ==
    [][ RoiStep =>
          LET name == crop_fname(current_index, roi_calls)
          IN  /\ name \in DOMAIN crop_dir'
              /\ current_roi' = name
              /\ fragment_counter' = fragment_counter + 1 ]_vars

\* C8: a handle_roi call made while the previous selection on the same image
\* is still pending leaves the new crop pending instead, and both crop files
\* are in the crop folder.
C8_SecondSelectionReplacesPending ==
    [][ ( /\ RoiStep
          /\ fragment_counter >= 1
          /\ current_roi = crop_fname(current_index, fragment_counter - 1) )
          => /\ current_roi' = crop_fname(current_index, fragment_counter)
             /\ current_roi' # current_roi
             /\ {current_roi, current_roi'} \subseteq DOMAIN crop_dir' ]_vars

\* C9: the confirmed list is append-only; only confirm_fragment changes it,
\* only with a pending fragment and a text that is non-empty after trimming,
\* and then by appending one record: the pending name and the trimmed text.
C9_ResultsAppendOnly ==
    [][ \/ (results' = results /\ confirmed' = confirmed)
        \/ /\ confirm_fragment
           /\ Pending
           /\ strip(entry_field) # << >>
           /\ results' = Append(results,
                                current_roi \o "\t" \o Join(strip(entry_field)))
           /\ confirmed' = Append(confirmed,
                                  [roi |-> current_roi,
                                   text |-> Join(strip(entry_field))]) ]_vars

\* two records were appended, the first one with its text trimmed
C9_Witness ==
    /\ Len(results) = 2
    /\ results[1] = "img_0000_frag_0000.png\ta"
    /\ results[2] = "img_0001_frag_0000.png\ta"

\* C10: with at least one source item the session is complete exactly when
\* next_image has run as many times as there are items; every earlier
\* next_image displays (or fails to decode) the next item and exports
\* nothing; nothing happens after completion; and a session whose process
\* lives and whose user keeps clicking "Next Image" completes.
C10_CompletesOnLastAdvance ==
    /\ [](Len(images_list) >= 1 =>
            (phase = "complete" <=>
               (tsv # << >> /\ current_index = Len(images_list))))
    /\ [][ (Len(images_list) >= 1 /\ next_image) =>
             IF current_index' = Len(images_list)
             THEN phase' = "complete"
             ELSE /\ phase' = "running"
                  /\ tsv' = << >>
                  /\ LET item == images_list[current_index' + 1]
                     IN  info_label' \in
                           { ImageInfo(current_index', Len(images_list), item),
                             "Error loading " \o item.label } ]_vars
    /\ [][ phase # "complete" ]_vars
    /\ ([](Len(images_list) >= 1 /\ phase # "aborted") => <>(phase = "complete"))

\* a two-item session completed by its second next_image, after selections
\* and a confirmation
C10_Witness ==
    /\ phase = "complete"
    /\ Len(images_list) = 2
    /\ current_index = 2
    /\ confirmed # << >>
    /\ roi_total = MaxSelections

\* C11: test.tsv is written exactly once per completed session, by the
\* next_image that completes it: while the session is not complete (running
\* or ended by an abort) no export exists, whatever has been confirmed; a
\* complete session has its export; and the only step that writes the file
\* is a next_image that starts without an export and ends complete.
C11_ExportOnlyOnCompletion ==
    /\ [](phase # "complete" => tsv = << >>)
    /\ [](phase = "complete" => tsv # << >>)
    /\ [][ tsv' # tsv =>
             (next_image /\ tsv = << >> /\ phase = "running"
                /\ phase' = "complete") ]_vars

\* a session with two confirmations made, still running on its last image
\* with nothing exported
C11_Witness ==
    /\ phase = "running"
    /\ Len(images_list) = 2
    /\ current_index = 1
    /\ Len(confirmed) = 2
    /\ tsv = << >>

\* x * n / d truncated toward zero, in exact arithmetic
ExactTrunc(x, n, d) ==
    IF x >= 0 THEN (x * n) \div d ELSE -(((-x) * n) \div d)

\* C12: a preview rectangle (x, y, w, h) of a preview (pw, ph) of an original
\* (W, H) is mapped to (trunc(x*W/pw), trunc(y*H/ph), trunc(w*W/pw),
\* trunc(h*H/ph)); (10,10,20,20) on the 500-wide preview of a 1000-wide
\* original gives (20,20,40,40).
C12_MappingIsExactTruncation ==
    ret # << >> =>
        LET rect == ret[1]
            W == call.image.w
            H == call.image.h
            pw == ScaledToWidth(call.image)[1]
            ph == ScaledToWidth(call.image)[2]
        IN  ret[2] = << ExactTrunc(rect[1], W, pw), ExactTrunc(rect[2], H, ph),
                        ExactTrunc(rect[3], W, pw), ExactTrunc(rect[4], H, ph) >>

\* C13: the mapped rectangle of every drag, the ones released outside the
\* preview included, lies within the original image.
C13_MappedRectWithinImage ==
    ret # << >> =>
        /\ 0 <= ret[2][1]
        /\ 0 <= ret[2][2]
        /\ ret[2][1] + ret[2][3] <= call.image.w
        /\ ret[2][2] + ret[2][4] <= call.image.h

\* C14: for every name, sanitize_name returns, and what it returns has at
\* most 50 characters, each a lowercase ASCII letter or an ASCII digit.
C14_SanitizedIsLowerAsciiAlnum ==
    /\ ret = << >> => ENABLED Sanitize
    /\ ret # << >> =>
          /\ Len(ret[1]) <= 50
          /\ \A i \in 1..Len(ret[1]) : ret[1][i] \in (97..122) \cup (48..57)

RECURSIVE SumPages(_)
SumPages(files) ==
    IF files = {} THEN 0
    ELSE LET f == CHOOSE g \in files : TRUE
         IN  f.pages + SumPages(files \ {f})

\* C15: for a folder with N raster images, PDFs with M pages in total and
\* other files, load_images returns N + M entries; the entries follow the
\* sorted order of the file names; a raster file gives one entry under its
\* own name; a PDF gives its pages consecutively, in page order, numbered
\* from 1; a file of another kind gives nothing.
C15_LoaderEntries ==
    ret # << >> =>
        LET images == ret[1].images
            rasters == { f \in call.dir : f.kind = "raster" }
            pdfs == { f \in call.dir : f.kind = "pdf" }
        IN  /\ Len(images) = Cardinality(rasters) + SumPages(pdfs)
            /\ \A i, j \in 1..Len(images) :
                 i < j => ~StrLess(images[j].src[1], images[i].src[1])
            /\ \A f \in rasters :
                 \E i \in 1..Len(images) :
                     images[i].src = <<f.name, 0>> /\ images[i].label = f.name
            /\ \A f \in pdfs :
                 \E start \in 0..Len(images) :
                     \A page \in 1..f.pages :
                         /\ start + page <= Len(images)
                         /\ images[start + page].src = <<f.name, page>>
                         /\ images[start + page].label =
                              sanitize_name(f.name) \o Str(<<"_">>)
                                \o Decimal(page) \o PngSuffix
            /\ \A i \in 1..Len(images) :
                 \E f \in rasters \cup pdfs : images[i].src[1] = f.name

\* a folder with two raster files, a two-page and a one-page PDF and a text
\* file, loaded into five entries
C15_Witness ==
    /\ ret # << >>
    /\ Cardinality({ f \in call.dir : f.kind = "raster" }) = 2
    /\ Cardinality({ f \in call.dir : f.kind = "pdf" }) = 2
    /\ SumPages(call.dir) = 3
    /\ \E f \in call.dir : f.kind = "other"
    /\ \E f \in call.dir : f.name = Str(<<"B", ".", "J", "P", "G">>)
    /\ Len(ret[1].images) = 5

\* C19: the entries of the list load_images returns have distinct temporary
\* files, and each refers to the image saved from its own file or page.
C19_DistinctTempPaths ==
    ret # << >> =>
        LET images == ret[1].images
        IN  /\ \A i, j \in 1..Len(images) :
                 i # j => images[i].tmp # images[j].tmp
            /\ \A i \in 1..Len(images) :
                 ret[1].temp_dir[images[i].tmp] = images[i].src

\* the left press that a release after the events of log would complete: the
\* index of the last left press if no left release follows it, 0 otherwise
OpenPress(log) ==
    LET left(kind) == { i \in 1..Len(log) :
                          log[i].kind = kind /\ log[i].button = "left" }
        Last(S) == IF S = {} THEN 0 ELSE CHOOSE i \in S : \A j \in S : j <= i
    IN  IF Last(left("press")) > Last(left("release"))
        THEN Last(left("press"))
        ELSE 0

\* C16: a left release at q that completes a drag begun by a left press at p
\* (any p, the widget origin (0,0) included; moves may lie in between)
\* forwards exactly one rectangle, the normalized rectangle of p and q, and
\* leaves the widget idle; a release with no press to complete, a release of
\* another button, a press and a move forward nothing.
C16_DragForwardsOneRect ==
    [][ LET e == call'[Len(call')]
            p == OpenPress(call)
        IN  IF e.kind = "release" /\ e.button = "left" /\ p # 0
            THEN /\ ret' = Append(ret, NormalizedRect(call[p].pos, e.pos))
                 /\ origin' = << >>
                 /\ rubberBand' = FALSE
            ELSE ret' = ret ]_vars

\* C17: every crop file img_{i}_frag_{k}.png holds pixels of the source item
\* at position i of the list, whatever the decode outcomes were.
C17_CropHoldsItsItem ==
    \A i \in 0..(Len(images_list) - 1), k \in 0..MaxSelections :
        crop_fname(i, k) \in DOMAIN crop_dir =>
            crop_dir[crop_fname(i, k)].src = images_list[i + 1].id

\* C18: a handle_roi call that gets to write its crop writes it under a name
\* no crop of the session was written under before, so no crop file is
\* overwritten; the files of the folder only grow in number.
C18_CropNamesAreFresh ==
    [][ /\ (RoiStep /\ fragment_counter' = fragment_counter + 1) =>
             LET name == crop_fname(current_index, fragment_counter)
             IN  /\ name \notin DOMAIN crop_dir
                 /\ current_roi' = name
                 /\ DOMAIN crop_dir' \subseteq DOMAIN crop_dir \cup {name}
        /\ \A name \in DOMAIN crop_dir :
             name \in DOMAIN crop_dir' /\ crop_dir'[name] = crop_dir[name] ]_vars

\* crops of two images, each the first of its image, and a second crop of the
\* first image
C18_Witness ==
    /\ "img_0000_frag_0000.png" \in DOMAIN crop_dir
    /\ "img_0000_frag_0001.png" \in DOMAIN crop_dir
    /\ "img_0001_frag_0000.png" \in DOMAIN crop_dir

\* C20: no crop name occurs in two confirmed records, and the rows of the
\* exported file are the confirmed records, one row each.
C20_ConfirmedAtMostOnce ==
    /\ \A i, j \in 1..Len(confirmed) :
         i # j => confirmed[i].roi # confirmed[j].roi
    /\ Len(results) = Len(confirmed)
    /\ \A i \in 1..Len(confirmed) :
         results[i] = confirmed[i].roi \o "\t" \o confirmed[i].text
    /\ tsv # << >> => tsv = export(results)

\* two fragments confirmed, none pending, and a further click on the still
\* enabled button rejected
C20_Witness ==
    /\ Len(confirmed) = 2
    /\ current_roi = NoneRoi
    /\ add_button
    /\ info_label = "Please select fragment and enter text."

====
